---- MODULE Spec2Model ----
(***************************************************************************)
(* Model of bgn/cmd/runScript.py: a script that sweeps a hard-coded grid   *)
(* of parameter tuples, runs `go run test1.go <7 args>` once per tuple     *)
(* with subprocess.run(cmd, capture_output=True, text=True) and prints the *)
(* captured standard output.                                               *)
(*                                                                         *)
(* The script is one sequential process; its state is its globals (args,   *)
(* arg_set, cmd, result), its position in the loop, what it has written to *)
(* its own standard output, and how it ended.  The environment is the      *)
(* child processes: a launch succeeds or raises (the program is absent), a *)
(* child that was launched terminates with some return code and texts on   *)
(* its two streams, or never terminates.                                   *)
(***************************************************************************)
EXTENDS Integers, Sequences, FiniteSets, TLC

(***************************************************************************)
(* Python integers.  One of the grid's values, 10000000000, does not fit a *)
(* machine word, so an int is kept the way str() sees it: little-endian    *)
(* limbs in base 10^9 (the limb no longer than nine decimal digits).       *)
(***************************************************************************)
DecimalBase == 1000000000

DecimalShift == 9

\* An int below the base: one limb.
Small(n) == <<n>>

\* 10000000000 = 10 * 10^9 + 0  (the third field of every tuple)
MessageSpace == <<0, 10>>

\* args = [[5, 512, 10000000000, F, 10000, 100000, 76] for F in 5,10,15,20,40]
Tuple(bidders) ==
    << Small(5), Small(512), MessageSpace, Small(bidders),
       Small(10000), Small(100000), Small(76) >>

InitialArgs ==
    << Tuple(5), Tuple(10), Tuple(15), Tuple(20), Tuple(40) >>

(***************************************************************************)
(* str(int): the decimal representation, most significant digit first, no *)
(* leading zeros; the limbs below the top one are zero-padded to nine      *)
(* digits.                                                                 *)
(***************************************************************************)
Digit(d) ==
    CASE d = 0 -> "0" [] d = 1 -> "1" [] d = 2 -> "2" [] d = 3 -> "3"
      [] d = 4 -> "4" [] d = 5 -> "5" [] d = 6 -> "6" [] d = 7 -> "7"
      [] d = 8 -> "8" [] d = 9 -> "9"

RECURSIVE StrNat(_)
StrNat(n) == IF n < 10 THEN Digit(n) ELSE StrNat(n \div 10) \o Digit(n % 10)

RECURSIVE PadLimb(_, _)
PadLimb(n, w) == IF w = 0 THEN "" ELSE PadLimb(n \div 10, w - 1) \o Digit(n % 10)

RECURSIVE StrLimbs(_, _)
StrLimbs(v, k) == IF k = 0 THEN "" ELSE PadLimb(v[k], DecimalShift) \o StrLimbs(v, k - 1)

str(v) == StrNat(v[Len(v)]) \o StrLimbs(v, Len(v) - 1)

(***************************************************************************)
(* cmd = ['go', 'run', 'test1.go', str(arg_set[0]), ..., str(arg_set[6])]  *)
(* (Python indexes from 0, sequences here from 1).                         *)
(***************************************************************************)
CmdSwapped(arg_set) ==
    << "go", "run", "test1.go",
       str(arg_set[1]), str(arg_set[2]), str(arg_set[4]), str(arg_set[3]),
       str(arg_set[5]), str(arg_set[6]), str(arg_set[7]) >>

Cmd(arg_set) ==
    << "go", "run", "test1.go",
       str(arg_set[1]), str(arg_set[2]), str(arg_set[3]), str(arg_set[4]),
       str(arg_set[5]), str(arg_set[6]), str(arg_set[7]) >>

(***************************************************************************)
(* The children.  What a child writes is its own business; three texts     *)
(* stand for it: nothing, the text of a stub that echoes its arguments     *)
(* (one line, the arguments separated by blanks), and some other text.     *)
(***************************************************************************)
MaxReturnCode == 1

MaxSignal == 1

\* A child killed by signal n has returncode -n.
ReturnCodes == (0 - MaxSignal)..MaxReturnCode

RECURSIVE Join(_, _)
Join(words, k) ==
    IF k > Len(words) THEN ""
    ELSE IF k = Len(words) THEN words[k]
    ELSE words[k] \o " " \o Join(words, k + 1)

\* The standard output of a stub put in place of `go` that echoes argv[1:].
Echo(cmd) == Join(cmd, 2) \o "\n"

Stdouts(cmd) == {"", Echo(cmd), "partial out"}

Stderrs == {"", "exit status 2\n"}

\* subprocess.CompletedProcess(args, returncode, stdout, stderr)
CompletedProcess(cmd, rc, out, err) ==
    [args |-> cmd, returncode |-> rc, stdout |-> out, stderr |-> err]

(***************************************************************************)
(* The state.                                                              *)
(*   h        the run of the script: a record of                           *)
(*              args     the global list `args`                            *)
(*              pc       the statement about to execute                    *)
(*              idx      how many elements the for-loop's iterator has     *)
(*                       handed out                                        *)
(*              arg_set, cmd, result   the globals the loop assigns        *)
(*                       (<<>> while `result` is unbound, else <<r>>)      *)
(*              out      what the script has written to standard output,   *)
(*                       one entry per print call                          *)
(*              issued   the commands it has launched a child for          *)
(*              exc      the exception that ended it, "None" if none       *)
(*              status   its exit status, -1 while it runs                 *)
(*   t        a second run of the same script on the same grid, used to    *)
(*            compare two runs whose children differ in what the script    *)
(*            is said not to look at; it stands still in a single run      *)
(*   running  the tuples (by position) whose child process is alive        *)
(*   hung     those of them that will never terminate                      *)
(*   children what each terminated child of h returned, in order of        *)
(*            termination: its standard output and whether it exited 0     *)
(*   trace    the events of h's run in order                               *)
(***************************************************************************)
VARIABLES h, t, running, hung, children, trace

vars == <<h, t, running, hung, children, trace>>

InitRun(grid) ==
    [ args    |-> grid,
      pc      |-> "for",
      idx     |-> 0,
      arg_set |-> <<>>,
      cmd     |-> <<>>,
      result  |-> <<>>,
      out     |-> <<>>,
      issued  |-> <<>>,
      exc     |-> "None",
      status  |-> -1 ]

(***************************************************************************)
(* The statements, as functions of the run's state.                        *)
(***************************************************************************)

\* for arg_set in args:  -- the iterator hands out the next element, or the
\* loop ends, which ends the script with exit status 0.
ForStepMutating(s) ==
    IF s.idx < Len(s.args)
    THEN [s EXCEPT !.idx = @ + 1, !.arg_set = s.args[s.idx + 1], !.pc = "build",
                   !.args[s.idx + 1][7] = Small(0)]
    ELSE [s EXCEPT !.pc = "done", !.status = 0]

ForStepSkipping(s) ==
    IF s.idx + 1 < Len(s.args)
    THEN [s EXCEPT !.idx = @ + 1, !.arg_set = s.args[s.idx + 1], !.pc = "build"]
    ELSE [s EXCEPT !.pc = "done", !.status = 0]

ForStepPeeking(s) ==
    IF Len(s.args) = 0
    THEN [s EXCEPT !.exc = "IndexError", !.status = 1, !.pc = "crashed"]
    ELSE IF s.idx < Len(s.args)
    THEN [s EXCEPT !.idx = @ + 1, !.arg_set = s.args[s.idx + 1], !.pc = "build"]
    ELSE [s EXCEPT !.pc = "done", !.status = 0]

ForStep(s) ==
    IF s.idx < Len(s.args)
    THEN [s EXCEPT !.idx = @ + 1, !.arg_set = s.args[s.idx + 1], !.pc = "build"]
    ELSE [s EXCEPT !.pc = "done", !.status = 0]

\* cmd = [...]
BuildStep(s) == [s EXCEPT !.cmd = Cmd(s.arg_set), !.pc = "run"]

\* subprocess.run(cmd, ...): the child is created and the script waits in
\* communicate() for it, with no timeout.
LaunchStepNoWait(s) == [s EXCEPT !.issued = Append(@, s.cmd), !.pc = "for"]

LaunchStep(s) == [s EXCEPT !.issued = Append(@, s.cmd), !.pc = "wait"]

\* subprocess.run(cmd, ...) when the child cannot be created ('go' is not on
\* the PATH): Popen raises FileNotFoundError, nothing catches it, the
\* interpreter prints a traceback on standard error and exits with status 1.
LaunchFailStep(s) ==
    [s EXCEPT !.exc = "FileNotFoundError", !.status = 1, !.pc = "crashed"]

\* result = subprocess.run(...): the child has terminated; check is False, so
\* the return code is stored and not looked at.
RunReturnsChecked(s, res) ==
    IF res.returncode # 0
    THEN [s EXCEPT !.exc = "CalledProcessError", !.status = 1, !.pc = "crashed"]
    ELSE [s EXCEPT !.result = <<res>>, !.pc = "print"]

RunReturnsStderrToo(s, res) ==
    [s EXCEPT !.result = <<[res EXCEPT !.stdout = @ \o res.stderr]>>, !.pc = "print"]

RunReturns(s, res) == [s EXCEPT !.result = <<res>>, !.pc = "print"]

\* print(result.stdout): the text and print's newline, in one call.
PrintStepTwice(s) ==
    [s EXCEPT !.out = Append(Append(@, s.result[1].stdout \o "\n"),
                             s.result[1].stdout \o "\n"),
              !.pc = "for"]

PrintStep(s) ==
    [s EXCEPT !.out = Append(@, s.result[1].stdout \o "\n"), !.pc = "for"]

\* subprocess.run is called without timeout=: while the child lives the script
\* stays in communicate(), whatever the child does.
KeepWaitingWithTimeout(s) ==
    IF s.pc = "wait"
    THEN [s EXCEPT !.exc = "TimeoutExpired", !.status = 1, !.pc = "crashed"]
    ELSE s

KeepWaiting(s) == s

(***************************************************************************)
(* One run.                                                                *)
(***************************************************************************)
Event(kind, i) == [kind |-> kind, tuple |-> i]

Init ==
    /\ h = InitRun(InitialArgs)
    /\ t = InitRun(InitialArgs)
    /\ running = {}
    /\ hung = {}
    /\ children = <<>>
    /\ trace = <<>>

ForNext ==
    /\ h.pc = "for"
    /\ h' = ForStep(h)
    /\ UNCHANGED <<t, running, hung, children, trace>>

Build ==
    /\ h.pc = "build"
    /\ h' = BuildStep(h)
    /\ UNCHANGED <<t, running, hung, children, trace>>

Launch ==
    /\ h.pc = "run"
    /\ h' = LaunchStep(h)
    /\ running' = running \cup {h.idx}
    /\ trace' = Append(trace, Event("launch", h.idx))
    /\ UNCHANGED <<t, hung, children>>

LaunchFails ==
    /\ h.pc = "run"
    /\ h' = LaunchFailStep(h)
    /\ trace' = Append(trace, Event("launchfail", h.idx))
    /\ UNCHANGED <<t, running, hung, children>>

\* A child terminates; the run that waits for it gets its CompletedProcess.
ChildExits ==
    \E i \in running \ hung :
    \E rc \in ReturnCodes, out \in Stdouts(h.issued[Len(h.issued)]), err \in Stderrs :
        /\ running' = running \ {i}
        /\ h' = IF h.pc = "wait" /\ h.idx = i
                THEN RunReturns(h, CompletedProcess(h.cmd, rc, out, err))
                ELSE h
        /\ children' = Append(children, [tuple |-> i, stdout |-> out, ok |-> rc = 0])
        /\ trace' = Append(trace, Event("exit", i))
        /\ UNCHANGED <<t, hung>>

\* A child turns out to be one that never terminates.
ChildHangs ==
    \E i \in running \ hung :
        /\ hung' = hung \cup {i}
        /\ h' = KeepWaiting(h)
        /\ UNCHANGED <<t, running, children, trace>>

PrintOut ==
    /\ h.pc = "print"
    /\ h' = PrintStep(h)
    /\ trace' = Append(trace, Event("print", h.idx))
    /\ UNCHANGED <<t, running, hung, children>>

Next ==
    \/ ForNext
    \/ Build
    \/ Launch
    \/ LaunchFails
    \/ ChildExits
    \/ ChildHangs
    \/ PrintOut

Spec == Init /\ [][Next]_vars

\* The same run when every enabled step is eventually taken: the interpreter
\* keeps executing the script, and a live child either terminates or is one
\* that never will.
FairSpec == Spec /\ WF_vars(Next)

(***************************************************************************)
(* The same script run on another grid: the embedded grid cut after its    *)
(* first n tuples, n = 0 being the empty grid.                             *)
(***************************************************************************)
Grids == { SubSeq(InitialArgs, 1, n) : n \in 0..Len(InitialArgs) }

InitGrids ==
    /\ \E g \in Grids : h = InitRun(g) /\ t = InitRun(g)
    /\ running = {}
    /\ hung = {}
    /\ children = <<>>
    /\ trace = <<>>

SpecGrids == InitGrids /\ [][Next]_vars

(***************************************************************************)
(* Two runs side by side, h and t, statement by statement.  Each launch    *)
(* succeeds or fails for both, each pair of children writes the same text  *)
(* to standard output, and their return codes and standard-error texts     *)
(* are chosen independently.                                               *)
(***************************************************************************)
PairForNext ==
    /\ h.pc = "for" /\ t.pc = "for"
    /\ h' = ForStep(h)
    /\ t' = ForStep(t)
    /\ UNCHANGED <<running, hung, children, trace>>

PairBuild ==
    /\ h.pc = "build" /\ t.pc = "build"
    /\ h' = BuildStep(h)
    /\ t' = BuildStep(t)
    /\ UNCHANGED <<running, hung, children, trace>>

PairLaunch ==
    /\ h.pc = "run" /\ t.pc = "run"
    /\ h' = LaunchStep(h)
    /\ t' = LaunchStep(t)
    /\ running' = running \cup {h.idx}
    /\ UNCHANGED <<hung, children, trace>>

PairLaunchFails ==
    /\ h.pc = "run" /\ t.pc = "run"
    /\ h' = LaunchFailStep(h)
    /\ t' = LaunchFailStep(t)
    /\ UNCHANGED <<running, hung, children, trace>>

PairChildExits ==
    \E i \in running \ hung :
    \E out \in Stdouts(h.issued[Len(h.issued)]) :
    \E rc1 \in ReturnCodes, rc2 \in ReturnCodes, err1 \in Stderrs, err2 \in Stderrs :
        /\ h.pc = "wait" /\ t.pc = "wait" /\ h.idx = i /\ t.idx = i
        /\ running' = running \ {i}
        /\ h' = RunReturns(h, CompletedProcess(h.cmd, rc1, out, err1))
        /\ t' = RunReturns(t, CompletedProcess(t.cmd, rc2, out, err2))
        /\ UNCHANGED <<hung, children, trace>>

PairChildHangs ==
    \E i \in running \ hung :
        /\ hung' = hung \cup {i}
        /\ h' = KeepWaiting(h)
        /\ t' = KeepWaiting(t)
        /\ UNCHANGED <<running, children, trace>>

PairPrintOut ==
    /\ h.pc = "print" /\ t.pc = "print"
    /\ h' = PrintStep(h)
    /\ t' = PrintStep(t)
    /\ UNCHANGED <<running, hung, children, trace>>

PairNext ==
    \/ PairForNext
    \/ PairBuild
    \/ PairLaunch
    \/ PairLaunchFails
    \/ PairChildExits
    \/ PairChildHangs
    \/ PairPrintOut

PairSpec == Init /\ [][PairNext]_vars

(***************************************************************************)
(* Properties.                                                             *)
(***************************************************************************)
\* The positions in the trace of the events of one kind for one tuple.
Events(kind, i) == { p \in DOMAIN trace : trace[p] = Event(kind, i) }

\* The positions in the trace of the events of one kind.
EventsOf(kind) == { p \in DOMAIN trace : trace[p].kind = kind }

\* The decimal text of the bidder count of each tuple, as written in the source.
BidderTexts == << "5", "10", "15", "20", "40" >>

\* The command of tuple i, written out.
ExpectedCmd(i) ==
    << "go", "run", "test1.go",
       "5", "512", "10000000000", BidderTexts[i], "10000", "100000", "76" >>

\* What print writes for tuple i when the child is a stub echoing argv[1:].
ExpectedEchoPrinted(i) ==
    "run test1.go 5 512 10000000000 " \o BidderTexts[i] \o " 10000 100000 76\n\n"

\* An int in normal form (every limb below the base, the top one not zero)
\* that is greater than zero.
IsPositive(v) == /\ Len(v) >= 1
                 /\ \A k \in 1..Len(v) : v[k] >= 0 /\ v[k] < DecimalBase
                 /\ v[Len(v)] > 0

\* A terminated child that exited non-zero having written nothing.
FailedSilently(c) == ~c.ok /\ c.stdout = ""

\* C1: when the run has completed (the loop ran off the end of the grid), a
\* child was launched exactly once for each of the 5 tuples, none twice and
\* none skipped, whatever the children returned; and at no time has a tuple
\* been launched twice.
C1_ExactlyOncePerTuple ==
    /\ \A i \in 1..Len(h.args) : Cardinality(Events("launch", i)) <= 1
    /\ h.pc = "done" =>
          /\ Len(h.issued) = 5
          /\ Cardinality(EventsOf("launch")) = 5
          /\ \A i \in 1..5 : Cardinality(Events("launch", i)) = 1

C1_Witness ==
    /\ h.pc = "done"
    /\ Len(children) = 5
    /\ \E k \in 1..5 : FailedSilently(children[k])
    /\ \E k \in 1..5 : children[k].ok /\ children[k].stdout # ""

\* C2: children are launched in grid order and never overlap: the child of
\* tuple i+1 is launched only after the child of tuple i was launched and has
\* terminated, and at most one child is alive in every state.
C2_SequentialNoOverlap ==
    /\ Cardinality(running) <= 1
    /\ \A p \in EventsOf("launch") :
          /\ trace[p].tuple = 1 + Cardinality({ q \in EventsOf("launch") : q < p })
          /\ trace[p].tuple > 1 =>
                \E q \in 1..(p - 1), r \in 1..(p - 1) :
                    /\ q < r
                    /\ trace[q] = Event("launch", trace[p].tuple - 1)
                    /\ trace[r] = Event("exit", trace[p].tuple - 1)

C2_Witness ==
    /\ Cardinality(EventsOf("launch")) = 3
    /\ running = {3}

\* C3: the command built for tuple i is go, run, test1.go followed by exactly
\* the decimal texts of the tuple's 7 fields in their order (10 words), both
\* as held in cmd once built and as launched.
C3_CommandShape ==
    /\ h.pc \in {"run", "wait", "print"} =>
          /\ Len(h.cmd) = 10
          /\ h.cmd = ExpectedCmd(h.idx)
          /\ \A k \in 1..7 : h.cmd[3 + k] = str(h.arg_set[k])
    /\ \A i \in DOMAIN h.issued : h.issued[i] = ExpectedCmd(i)

C3_Witness ==
    /\ Len(h.issued) = 5
    /\ h.pc = "wait"
    /\ h.cmd[7] = "40"

\* C4: a child that exits non-zero with empty standard output does not stop
\* the sweep: the script is never ended by it (no CalledProcessError, and it
\* does not stop at that tuple unless it is the last), and a script that has
\* run off the end of the grid has launched every tuple and exits with 0
\* whatever the return codes were.
C4_NonZeroExitDoesNotStop ==
    /\ \A k \in DOMAIN children :
          FailedSilently(children[k]) =>
             /\ h.exc # "CalledProcessError"
             /\ h.pc = "crashed" => h.idx > children[k].tuple
             /\ h.pc = "done" => Len(h.issued) = Len(h.args) /\ h.idx = Len(h.args)
    /\ h.pc = "done" => h.status = 0 /\ Len(h.issued) = Len(h.args)

C4_Witness ==
    /\ h.pc = "done"
    /\ h.status = 0
    /\ Len(children) = 5
    /\ \A k \in 1..5 : FailedSilently(children[k])

\* C5 (the claim as stated): when the launch of a child fails because the
\* program is absent, the script is not ended by it: it carries on with an
\* empty standard output for that tuple.
C5_AbsentProgramContinues ==
    \A p \in EventsOf("launchfail") :
        /\ h.pc # "crashed"
        /\ h.exc = "None"
        /\ h.status # 1

\* C6: the script prints, once per tuple and in grid order, the standard
\* output of that tuple's own child: after the child has terminated and before
\* the next child is launched; with a stub that echoes its arguments the text
\* printed for tuple i holds the 7 values of tuple i in order.
C6_PrintsOwnOutputInOrder ==
    /\ Len(h.out) <= Len(children)
    /\ Len(children) <= Len(h.out) + 1
    /\ Len(h.out) = Cardinality(EventsOf("print"))
    /\ \A i \in DOMAIN h.out :
          /\ children[i].tuple = i
          /\ h.out[i] = children[i].stdout \o "\n"
          /\ children[i].stdout = Echo(h.issued[i]) => h.out[i] = ExpectedEchoPrinted(i)
    /\ \A i \in 1..Len(h.args) : Cardinality(Events("print", i)) <= 1
    /\ \A p \in EventsOf("print") :
          /\ trace[p].tuple = 1 + Cardinality({ q \in EventsOf("print") : q < p })
          /\ \E q \in 1..(p - 1) : trace[q] = Event("exit", trace[p].tuple)
    /\ \A p \in EventsOf("launch") :
          trace[p].tuple > 1 =>
             \E q \in 1..(p - 1) : trace[q] = Event("print", trace[p].tuple - 1)
    /\ h.pc = "done" => \A i \in 1..Len(h.args) : Cardinality(Events("print", i)) = 1

C6_Witness ==
    /\ h.pc = "done"
    /\ Len(h.out) = 5
    /\ children[1].stdout = Echo(h.issued[1])
    /\ children[2].stdout = ""
    /\ children[3].stdout = "partial out"
    /\ h.out[5] = ExpectedEchoPrinted(5)

\* C7: on a grid of zero tuples the script launches nothing, prints nothing
\* and ends with exit status 0: its only step is the one that ends the loop.
C7_EmptyGridSilent ==
    h.args = <<>> =>
        /\ h.pc \in {"for", "done"}
        /\ h.issued = <<>>
        /\ h.out = <<>>
        /\ trace = <<>>
        /\ running = {}
        /\ h.exc = "None"
        /\ h.pc = "for" => ForStep(h).pc = "done"
        /\ h.pc = "done" => h.status = 0

C7_Witness ==
    /\ h.args = <<>>
    /\ h.pc = "done"
    /\ h.status = 0

\* C8: two runs whose children write the same standard-output texts and
\* differ in return codes and standard-error texts are at the same statement,
\* have issued the same commands and printed the same output, and end the
\* same way; and the commands issued are those of the grid, whatever the
\* children returned.
C8_ExitAndStderrIgnored ==
    /\ h.pc = t.pc
    /\ h.idx = t.idx
    /\ h.issued = t.issued
    /\ h.out = t.out
    /\ h.status = t.status
    /\ h.exc = t.exc
    /\ h.cmd = t.cmd
    /\ \A i \in DOMAIN t.issued : t.issued[i] = Cmd(InitialArgs[i])

C8_Witness ==
    /\ h.pc = "done"
    /\ Len(h.out) = 5
    /\ h.result[1].returncode # t.result[1].returncode
    /\ h.result[1].stderr # t.result[1].stderr
    /\ h.result[1].stdout # ""

\* C9: the grid is the same in every state: five tuples of seven positive
\* integers, (5, 512, 10000000000, F, 10000, 100000, 76) with F = 5, 10, 15,
\* 20, 40 in that order; no statement changes it.
C9_GridFixed ==
    /\ Len(h.args) = 5
    /\ \A i \in 1..5 :
          /\ Len(h.args[i]) = 7
          /\ \A k \in 1..7 : IsPositive(h.args[i][k])
          /\ h.args[i] = << <<5>>, <<512>>, <<0, 10>>, h.args[i][4],
                            <<10000>>, <<100000>>, <<76>> >>
          /\ str(h.args[i][3]) = "10000000000"
    /\ << h.args[1][4], h.args[2][4], h.args[3][4], h.args[4][4], h.args[5][4] >>
         = << <<5>>, <<10>>, <<15>>, <<20>>, <<40>> >>

C9_Witness ==
    /\ h.pc = "done"
    /\ Len(h.out) = 5
    /\ Len(h.issued) = 5

\* C10: the script waits for each child without timeout.  If every tuple's
\* child is launched and terminates, the script ends after as many launches
\* and prints as the grid has tuples; once a child is one that never
\* terminates, nothing changes any more: the script stays in its wait for
\* that child, has printed nothing for it and has launched no later tuple.
C10_BlocksWithoutTimeout ==
    /\ <>( \/ h.pc = "done" /\ Len(h.issued) = Len(h.args) /\ Len(h.out) = Len(h.args)
           \/ hung # {}
           \/ h.exc = "FileNotFoundError" )
    /\ [][hung = {}]_vars
    /\ [](hung # {} =>
             /\ h.pc = "wait"
             /\ hung = {h.idx}
             /\ running = hung
             /\ Len(h.issued) = h.idx
             /\ Len(h.out) = h.idx - 1
             /\ Events("print", h.idx) = {})

C10_Witness ==
    /\ hung = {3}
    /\ h.pc = "wait"
    /\ Len(h.out) = 2

====
